---- MODULE Spec2Model ----
(***************************************************************************)
(* Persistence core of the meme library (src-tauri/src/db/mod.rs):         *)
(* schema migration, tag index, meme records, paginated search and the     *)
(* content-addressed file library.                                         *)
(***************************************************************************)
EXTENDS Integers, Sequences, FiniteSets, TLC

\* ------------------------------------------------------------------ bounds
MaxTagId == 2      \* tag rowids the engine may hand out
MaxMemeId == 2     \* meme ids used by the tag index and the record store
MaxTime == 1       \* seconds the clock may advance (CURRENT_TIMESTAMP)
MaxEditId == 1     \* meme ids the record-store run edits (1..MaxEditId)
BigPage == 71582789  \* a page number whose offset exceeds an i32
MaxExtra == 5      \* memes beyond one full page in the paging run
MaxLen == 2        \* bytes of a source file

\* --------------------------------------------------------------- constants
DATABASE_VERSION == 1
NoRow == -1        \* Option::None of `.optional()`: no row with id = 1

Namespaces == {"artist"}
Values == {"alice", "bob"}
TagIds == 1..MaxTagId
MemeIds == 1..MaxMemeId
None == <<>>       \* Option::None of a text column / argument (SQL NULL)

VARIABLES
    tvExists,      \* table_version exists
    version_code,  \* table_version.version_code of row id = 1, or NoRow
    schema,        \* which schema script shaped the data tables: none, v0, v1
    meme,          \* table meme: id -> row
    tag,           \* table tag: set of rows [id, namespace, value]
    meme_tag,      \* table meme_tag: <<tag_id, meme_id>> -> number of rows
    now,           \* CURRENT_TIMESTAMP, in seconds
    pc,            \* position inside handle_version / add_file, or "idle"
    version,       \* handle_version's local `version` (NoRow outside the call)
    snap,          \* store at BEGIN of the open transaction (rollback journal)
    ret,           \* what the last operation returned
    files,         \* source files: path -> bytes
    library,       \* DATABASE_FILE_DIR: file name -> bytes
    call           \* the running add_file: its arguments and local `sha256`

dbvars == <<tvExists, version_code, schema, meme, tag, meme_tag>>
fsvars == <<files, library, call>>
vars == <<tvExists, version_code, schema, meme, tag, meme_tag, now, pc,
          version, snap, ret, files, library, call>>

\* The store as one value (what a transaction snapshots and restores).
Store == [tvExists |-> tvExists, version_code |-> version_code,
          schema |-> schema, meme |-> meme, tag |-> tag,
          meme_tag |-> meme_tag]

NoEdges == [p \in TagIds \X MemeIds |-> 0]

NoSnap == [tvExists |-> FALSE, version_code |-> NoRow, schema |-> "none",
           meme |-> <<>>, tag |-> {}, meme_tag |-> NoEdges]

\* What an operation returned: Ok(value), Err(Error::SQLiteError | IOError),
\* or a panic (an `unwrap` on an Err). `before` is the store a handle_version
\* call found when it began.
\* `val` is a record: [id], [meme], [rows, ...], [stmts], [sha256], Unit, or
\* [kind] for an error.
Ok(op, val) == [op |-> op, res |-> "ok", val |-> val, before |-> NoSnap]
Err(op, kind) ==
    [op |-> op, res |-> "err", val |-> [kind |-> kind], before |-> NoSnap]
Panic(op) ==
    [op |-> op, res |-> "panic", val |-> [kind |-> "unwrap"],
     before |-> NoSnap]
Unit == [unit |-> TRUE]
NoRet == [op |-> "none", res |-> "ok", val |-> Unit, before |-> NoSnap]

TablesExist == schema # "none"

\* -------------------------------------------------------- SchemaMigrator
\* handle_version, one SQL statement per step. Every statement can fail; the
\* `?` then returns the error and drops the uncommitted transaction.

\* Dropping the transaction without rolling back (statements left applied).
RollbackKeep ==
    /\ UNCHANGED dbvars
    /\ snap' = NoSnap

\* Drop of an uncommitted rusqlite Transaction: ROLLBACK to the state at BEGIN.
Rollback ==
    /\ tvExists' = snap.tvExists
    /\ version_code' = snap.version_code
    /\ schema' = snap.schema
    /\ meme' = snap.meme
    /\ tag' = snap.tag
    /\ meme_tag' = snap.meme_tag
    /\ snap' = NoSnap

\* A statement of handle_version fails: `?` returns Error::SQLiteError.
handle_version_fail ==
    /\ pc \in {"create_tableversion", "query_version", "upgrade_0_1",
               "insert_version", "create_database", "commit"}
    /\ Rollback
    /\ ret' = [ret EXCEPT !.res = "err",
                          !.val.stmts = Append(ret.val.stmts, pc)]
    /\ pc' = "idle"
    /\ version' = NoRow
    /\ UNCHANGED <<now, fsvars>>

\* conn.transaction().unwrap(): BEGIN, or a panic when BEGIN fails.
handle_version_begin ==
    /\ pc = "idle"
    /\ \/ /\ snap' = Store
          /\ ret' = [op |-> "handle_version", res |-> "running",
                     val |-> [stmts |-> <<>>], before |-> Store]
          /\ pc' = "create_tableversion"
       \/ /\ ret' = Panic("handle_version")
          /\ UNCHANGED <<snap, pc>>
    /\ UNCHANGED <<dbvars, now, version, fsvars>>

\* create_tableversion.sql: CREATE TABLE IF NOT EXISTS table_version.
create_tableversion ==
    tvExists' = TRUE

handle_version_create_tableversion ==
    /\ pc = "create_tableversion"
    /\ create_tableversion
    /\ ret' = [ret EXCEPT !.val.stmts = Append(@, "create_tableversion")]
    /\ pc' = "query_version"
    /\ UNCHANGED <<version_code, schema, meme, tag, meme_tag, now, version,
                   snap, fsvars>>

\* SELECT version_code FROM table_version WHERE id = 1 (.optional()).
handle_version_query ==
    /\ pc = "query_version"
    /\ version' = version_code
    /\ pc' = IF version_code # NoRow
             THEN IF version_code < DATABASE_VERSION /\ version_code < 1
                  THEN "upgrade_0_1"
                  ELSE "commit"
             ELSE "insert_version"
    /\ UNCHANGED <<dbvars, now, snap, ret, fsvars>>

\* upgrade_0_1.sql: brings a version 0 store to the version 1 layout.
upgrade_0_1 ==
    /\ schema' = "v1"
    /\ version_code' = 1

handle_version_upgrade ==
    /\ pc = "upgrade_0_1"
    /\ upgrade_0_1
    /\ ret' = [ret EXCEPT !.val.stmts = Append(@, "upgrade_0_1")]
    /\ pc' = "commit"
    /\ UNCHANGED <<tvExists, meme, tag, meme_tag, now, version, snap, fsvars>>

\* INSERT INTO table_version(id, version_code) VALUES (1, 0): a stale constant.
handle_version_insert_zero ==
    /\ pc = "insert_version"
    /\ version_code' = 0
    /\ ret' = [ret EXCEPT !.val.stmts = Append(@, "insert_version")]
    /\ pc' = "create_database"
    /\ UNCHANGED <<tvExists, schema, meme, tag, meme_tag, now, version, snap,
                   fsvars>>

\* INSERT INTO table_version(id, version_code) VALUES (1, DATABASE_VERSION).
handle_version_insert ==
    /\ pc = "insert_version"
    /\ version_code' = DATABASE_VERSION
    /\ ret' = [ret EXCEPT !.val.stmts = Append(@, "insert_version")]
    /\ pc' = "create_database"
    /\ UNCHANGED <<tvExists, schema, meme, tag, meme_tag, now, version, snap,
                   fsvars>>

\* create_database.sql: creates the tables meme, tag and meme_tag, empty.
create_database ==
    /\ schema' = "v1"
    /\ meme' = <<>>
    /\ tag' = {}
    /\ meme_tag' = NoEdges

handle_version_create_database ==
    /\ pc = "create_database"
    /\ create_database
    /\ ret' = [ret EXCEPT !.val.stmts = Append(@, "create_database")]
    /\ pc' = "commit"
    /\ UNCHANGED <<tvExists, version_code, now, version, snap, fsvars>>

\* transaction.commit(): COMMIT succeeded.
handle_version_commit ==
    /\ pc = "commit"
    /\ snap' = NoSnap
    /\ ret' = [ret EXCEPT !.res = "ok"]
    /\ pc' = "idle"
    /\ version' = NoRow
    /\ UNCHANGED <<dbvars, now, fsvars>>

handle_version ==
    \/ handle_version_begin
    \/ handle_version_create_tableversion
    \/ handle_version_query
    \/ handle_version_upgrade
    \/ handle_version_insert
    \/ handle_version_create_database
    \/ handle_version_commit
    \/ handle_version_fail

\* --------------------------------------------------------------- TagIndex
\* Every statement below runs on the connection in autocommit mode and the
\* connection is used by one caller at a time, so each call is one step.

\* SELECT id FROM tag WHERE namespace = ?1 AND value = ?2 (.optional()).
query_tag_id(namespace, value) ==
    LET rows == {t \in tag : t.namespace = namespace /\ t.value = value}
    IN  IF rows = {} THEN NoRow ELSE (CHOOSE t \in rows : TRUE).id

\* The rowid the engine gives an inserted row: one no row of the table has.
FreeRowids(ids, used) == ids \ used

\* query_or_insert_tag without the lookup: inserts on every call.
query_or_insert_tag_always(namespace, value) ==
    /\ pc = "idle"
    /\ TablesExist
    /\ \E new \in FreeRowids(TagIds, {t.id : t \in tag}) :
          /\ tag' = tag \cup {[id |-> new, namespace |-> namespace,
                                value |-> value]}
          /\ ret' = Ok("query_or_insert_tag", [id |-> new])
    /\ UNCHANGED <<tvExists, version_code, schema, meme, meme_tag, now, pc,
                   version, snap, fsvars>>

query_or_insert_tag(namespace, value) ==
    /\ pc = "idle"
    /\ IF ~TablesExist
       THEN /\ ret' = Err("query_or_insert_tag", "SQLiteError")
            /\ UNCHANGED tag
       ELSE LET tag_id == query_tag_id(namespace, value)
            IN  IF tag_id # NoRow
                THEN /\ ret' = Ok("query_or_insert_tag", [id |-> tag_id])
                     /\ UNCHANGED tag
                ELSE \E new \in FreeRowids(TagIds, {t.id : t \in tag}) :
                       /\ tag' = tag \cup {[id |-> new,
                                             namespace |-> namespace,
                                             value |-> value]}
                       /\ ret' = Ok("query_or_insert_tag", [id |-> new])
    /\ UNCHANGED <<tvExists, version_code, schema, meme, meme_tag, now, pc,
                   version, snap, fsvars>>

\* The unique pair (tag_id, meme_id) of table meme_tag: a second row conflicts.
meme_tag_conflict(tag_id, meme_id) == meme_tag[<<tag_id, meme_id>>] > 0

\* link_tag_meme with a plain INSERT: a conflict is an error, not ignored.
link_tag_meme_abort(tag_id, meme_id) ==
    /\ pc = "idle"
    /\ IF ~TablesExist \/ meme_tag_conflict(tag_id, meme_id)
       THEN /\ ret' = Err("link_tag_meme", "SQLiteError")
            /\ UNCHANGED meme_tag
       ELSE /\ meme_tag' = [meme_tag EXCEPT ![<<tag_id, meme_id>>] = @ + 1]
            /\ ret' = Ok("link_tag_meme", Unit)
    /\ UNCHANGED <<tvExists, version_code, schema, meme, tag, now, pc,
                   version, snap, fsvars>>

\* INSERT OR IGNORE INTO meme_tag(tag_id, meme_id) VALUES (?1, ?2).
link_tag_meme(tag_id, meme_id) ==
    /\ pc = "idle"
    /\ IF ~TablesExist
       THEN /\ ret' = Err("link_tag_meme", "SQLiteError")
            /\ UNCHANGED meme_tag
       ELSE /\ meme_tag' = IF meme_tag_conflict(tag_id, meme_id)
                           THEN meme_tag
                           ELSE [meme_tag EXCEPT ![<<tag_id, meme_id>>] = @ + 1]
            /\ ret' = Ok("link_tag_meme", Unit)
    /\ UNCHANGED <<tvExists, version_code, schema, meme, tag, now, pc,
                   version, snap, fsvars>>

\* SELECT COUNT(*) FROM meme_tag WHERE tag_id = ?1, over the rows `edges`.
RECURSIVE SumOver(_, _, _)
SumOver(edges, tag_id, ms) ==
    IF ms = {} THEN 0
    ELSE LET m == CHOOSE x \in ms : TRUE
         IN  edges[<<tag_id, m>>] + SumOver(edges, tag_id, ms \ {m})

CountEdges(edges, tag_id) == SumOver(edges, tag_id, MemeIds)

\* unlink_tag_meme that never counts the remaining edges.
unlink_tag_meme_nocount(tag_id, meme_id, remove_unused_tag) ==
    /\ pc = "idle"
    /\ TablesExist
    /\ meme_tag' = [meme_tag EXCEPT ![<<tag_id, meme_id>>] = 0]
    /\ tag' = IF remove_unused_tag
              THEN {t \in tag : t.id # tag_id}
              ELSE tag
    /\ ret' = Ok("unlink_tag_meme", Unit)
    /\ UNCHANGED <<tvExists, version_code, schema, meme, now, pc, version,
                   snap, fsvars>>

unlink_tag_meme(tag_id, meme_id, remove_unused_tag) ==
    /\ pc = "idle"
    /\ IF ~TablesExist
       THEN /\ ret' = Err("unlink_tag_meme", "SQLiteError")
            /\ UNCHANGED <<meme_tag, tag>>
       ELSE LET edges == [meme_tag EXCEPT ![<<tag_id, meme_id>>] = 0]
                num == CountEdges(edges, tag_id)
            IN  /\ meme_tag' = edges
                /\ tag' = IF remove_unused_tag /\ num = 0
                          THEN {t \in tag : t.id # tag_id}
                          ELSE tag
                /\ ret' = Ok("unlink_tag_meme", Unit)
    /\ UNCHANGED <<tvExists, version_code, schema, meme, now, pc, version,
                   snap, fsvars>>

TagIndex ==
    \/ \E namespace \in Namespaces, value \in Values :
          query_or_insert_tag(namespace, value)
    \/ \E tag_id \in TagIds, meme_id \in MemeIds :
          link_tag_meme(tag_id, meme_id)
    \/ \E tag_id \in TagIds, meme_id \in MemeIds, remove \in BOOLEAN :
          unlink_tag_meme(tag_id, meme_id, remove)

\* -------------------------------------------------------- MemeRecordStore
Some(x) == <<x>>
Digests == {"d1"}
NewTexts == {<<"a">>}           \* texts a caller passes to insert_meme
EditTexts == {<<"a", "b">>}     \* texts a caller passes to update_meme
OptEdit == {None} \cup {Some(t) : t \in EditTexts}

\* Column defaults of table meme: fav and trash false, both times now.
NewMeme(file_id, extra_data, summary, description, thumbnail) ==
    [content |-> file_id, extra_data |-> extra_data, summary |-> summary,
     desc |-> description, thumbnail |-> thumbnail, fav |-> FALSE,
     trash |-> FALSE, create_time |-> now, update_time |-> now]

\* UPDATE meme SET <col> = ?2 WHERE id = ?1: no row with that id, no change.
UpdateRow(rows, id, col, value) ==
    IF id \in DOMAIN rows THEN [rows EXCEPT ![id][col] = value] ELSE rows

insert_meme(file_id, extra_data, summary, description, thumbnail) ==
    /\ pc = "idle"
    /\ IF ~TablesExist
       THEN /\ ret' = Err("insert_meme", "SQLiteError")
            /\ UNCHANGED meme
       ELSE \E id \in FreeRowids(MemeIds, DOMAIN meme) :
              /\ meme' = [i \in DOMAIN meme \cup {id} |->
                            IF i = id
                            THEN NewMeme(file_id, extra_data, summary,
                                         description, thumbnail)
                            ELSE meme[i]]
              /\ ret' = Ok("insert_meme", [id |-> id])
    /\ UNCHANGED <<tvExists, version_code, schema, tag, meme_tag, now, pc,
                   version, snap, fsvars>>

update_meme_edit_time(id) ==
    /\ pc = "idle"
    /\ IF ~TablesExist
       THEN /\ ret' = Err("update_meme_edit_time", "SQLiteError")
            /\ UNCHANGED meme
       ELSE /\ meme' = UpdateRow(meme, id, "update_time", now)
            /\ ret' = Ok("update_meme_edit_time", Unit)
    /\ UNCHANGED <<tvExists, version_code, schema, tag, meme_tag, now, pc,
                   version, snap, fsvars>>

\* One `if let Some(v) = arg { UPDATE ... }` of update_meme.
SetIfSome(rows, id, col, arg) ==
    IF arg # None THEN UpdateRow(rows, id, col, arg[1]) ELSE rows

\* The same with the Option bound as it is: None overwrites with NULL.
SetAlways(rows, id, col, arg) ==
    UpdateRow(rows, id, col, IF arg = None THEN None ELSE arg[1])

\* update_meme binding every argument unconditionally.
update_meme_dense(id, extra_data, summary, description, thumbnail) ==
    /\ pc = "idle"
    /\ TablesExist
    /\ meme' = SetAlways(SetAlways(SetAlways(SetAlways(meme,
                   id, "extra_data", extra_data),
                   id, "summary", summary),
                   id, "desc", description),
                   id, "thumbnail", thumbnail)
    /\ ret' = Ok("update_meme", Unit)
    /\ UNCHANGED <<tvExists, version_code, schema, tag, meme_tag, now, pc,
                   version, snap, fsvars>>

update_meme(id, extra_data, summary, description, thumbnail) ==
    /\ pc = "idle"
    /\ IF ~TablesExist /\ <<extra_data, summary, description, thumbnail>>
                            # <<None, None, None, None>>
       THEN /\ ret' = Err("update_meme", "SQLiteError")
            /\ UNCHANGED meme
       ELSE /\ meme' = SetIfSome(SetIfSome(SetIfSome(SetIfSome(meme,
                           id, "extra_data", extra_data),
                           id, "summary", summary),
                           id, "desc", description),
                           id, "thumbnail", thumbnail)
            /\ ret' = Ok("update_meme", Unit)
    /\ UNCHANGED <<tvExists, version_code, schema, tag, meme_tag, now, pc,
                   version, snap, fsvars>>

\* struct Meme as the two row mappers build it.
MemeOf(id) ==
    [id |-> id, content |-> meme[id].content,
     extra_data |-> meme[id].extra_data, summary |-> meme[id].summary,
     desc |-> meme[id].desc, fav |-> meme[id].fav, trash |-> meme[id].trash]

query_meme_by_id(id) ==
    /\ pc = "idle"
    /\ ret' = IF ~TablesExist \/ id \notin DOMAIN meme
              THEN Err("query_meme_by_id", "SQLiteError")
              ELSE Ok("query_meme_by_id", [meme |-> MemeOf(id)])
    /\ UNCHANGED <<dbvars, now, pc, version, snap, fsvars>>

update_fav_meme_by_id(id, value) ==
    /\ pc = "idle"
    /\ IF ~TablesExist
       THEN /\ ret' = Err("update_fav_meme_by_id", "SQLiteError")
            /\ UNCHANGED meme
       ELSE /\ meme' = UpdateRow(meme, id, "fav", value)
            /\ ret' = Ok("update_fav_meme_by_id", Unit)
    /\ UNCHANGED <<tvExists, version_code, schema, tag, meme_tag, now, pc,
                   version, snap, fsvars>>

\* The caller's soft delete: UPDATE meme SET trash = ?2 WHERE id = ?1.
update_trash_meme_by_id(id, value) ==
    /\ pc = "idle"
    /\ TablesExist
    /\ meme' = UpdateRow(meme, id, "trash", value)
    /\ ret' = Ok("update_trash_meme_by_id", Unit)
    /\ UNCHANGED <<tvExists, version_code, schema, tag, meme_tag, now, pc,
                   version, snap, fsvars>>

\* A second passes: CURRENT_TIMESTAMP advances.
Tick(limit) ==
    /\ pc = "idle"
    /\ now < limit
    /\ now' = now + 1
    /\ UNCHANGED <<dbvars, pc, version, snap, ret, fsvars>>

\* ---------------------------------------------------------- QueryCompiler
PAGE_SIZE == 30
I32_MAX == 2147483647
SearchModes == {"OnlyFav", "OnlyTrash", "Normal"}

\* A search expression is a sequence of terms: namespace:value, namespace:,
\* a free-text value, each possibly negated, or a malformed token.
Term(kind, neg, namespace, value, text) ==
    [kind |-> kind, neg |-> neg, namespace |-> namespace, value |-> value,
     text |-> text]

HasTag(id, namespace, value) ==
    \E t \in tag :
        /\ t.namespace = namespace
        /\ t.value = value
        /\ <<t.id, id>> \in DOMAIN meme_tag
        /\ meme_tag[<<t.id, id>>] > 0

HasNamespace(id, namespace) ==
    \E t \in tag :
        /\ t.namespace = namespace
        /\ <<t.id, id>> \in DOMAIN meme_tag
        /\ meme_tag[<<t.id, id>>] > 0

Contains(hay, needle) ==
    \E i \in 0..(Len(hay) - Len(needle)) :
        SubSeq(hay, i + 1, i + Len(needle)) = needle

TextMatch(id, value) ==
    \/ Contains(meme[id].summary, value)
    \/ meme[id].desc # None /\ Contains(meme[id].desc[1], value)

TermHolds(term, id) ==
    LET p == CASE term.kind = "tag" ->
                    HasTag(id, term.namespace, term.value)
               [] term.kind = "ns" -> HasNamespace(id, term.namespace)
               [] OTHER -> TextMatch(id, term.text)
    IN  IF term.neg THEN ~p ELSE p

\* build_search_sql: the terms ANDed, or an error for a malformed token.
build_search_sql(stmt) ==
    IF \E k \in 1..Len(stmt) : stmt[k].kind = "bad" THEN "err" ELSE "ok"

Predicate(stmt, id) == \A k \in 1..Len(stmt) : TermHolds(stmt[k], id)

\* SearchMode::where_stmt with Normal filtering nothing.
where_stmt_all(mode, id) ==
    CASE mode = "OnlyTrash" -> meme[id].trash = TRUE
      [] mode = "OnlyFav" -> meme[id].fav = TRUE /\ meme[id].trash # TRUE
      [] OTHER -> TRUE

where_stmt(mode, id) ==
    CASE mode = "OnlyTrash" -> meme[id].trash = TRUE
      [] mode = "OnlyFav" -> meme[id].fav = TRUE /\ meme[id].trash # TRUE
      [] OTHER -> meme[id].trash # TRUE

\* The rows of the WHERE clause: <predicate> AND <mode clause>.
Matching(stmt, mode) ==
    {id \in DOMAIN meme : Predicate(stmt, id) /\ where_stmt(mode, id)}

\* ORDER BY update_time DESC: every order of the ids in S the engine may
\* produce. Rows with equal update_time come in an order the engine chooses.
RECURSIVE Orders(_)
Orders(S) ==
    IF S = {} THEN {<<>>}
    ELSE LET top == {i \in S : \A j \in S :
                        meme[j].update_time <= meme[i].update_time}
         IN  UNION {{<<i>> \o o : o \in Orders(S \ {i})} : i \in top}

\* page * 30 overflows an i32.
Overflows(page) == page > (I32_MAX \div PAGE_SIZE)

\* page * 30 in i32, wrapped when it overflows (release build): the product
\* minus 2^32, for pages up to twice I32_MAX / 30, written so that no
\* intermediate value leaves the 32-bit range.
Offset(page) ==
    IF ~Overflows(page) THEN page * PAGE_SIZE
    ELSE (((page - (I32_MAX \div PAGE_SIZE)) * PAGE_SIZE)
          - (I32_MAX % PAGE_SIZE)) - I32_MAX - 2

\* LIMIT 30 OFFSET n: a negative OFFSET counts as 0.
Window(order, offset) ==
    LET off == IF offset < 0 THEN 0 ELSE offset
        last == IF off + PAGE_SIZE < Len(order) THEN off + PAGE_SIZE
                ELSE Len(order)
    IN  SubSeq(order, off + 1, last)

SearchRet(stmt, page, mode, rows) ==
    Ok("search_meme_by_stmt",
       [stmt |-> stmt, page |-> page, mode |-> mode, rows |-> rows])

search_meme_by_stmt(stmt, page, mode) ==
    /\ pc = "idle"
    /\ IF build_search_sql(stmt) = "err"
       THEN ret' = Err("search_meme_by_stmt", "SQLiteError")
       ELSE \/ /\ Overflows(page)
               /\ ret' = Panic("search_meme_by_stmt")
            \/ /\ ~TablesExist
               /\ ret' = Panic("search_meme_by_stmt")
            \/ /\ TablesExist
               /\ \E order \in Orders(Matching(stmt, mode)) :
                     LET ids == Window(order, Offset(page))
                     IN  ret' = SearchRet(stmt, page, mode,
                                          [k \in DOMAIN ids |-> MemeOf(ids[k])])
    /\ UNCHANGED <<dbvars, now, pc, version, snap, fsvars>>

\* ----------------------------------------------------------- ContentStore
Paths == {"p1", "p2"}
Bytes == {0, 1}
Contents == UNION {[1..n -> Bytes] : n \in 1..MaxLen}
NoCall == [file |-> "", delete_after_add |-> FALSE, sha256 |-> 0]

\* try_digest: SHA-256 of the bytes, as a number that names them (distinct
\* bytes, distinct names).
RECURSIVE try_digest(_)
try_digest(bytes) ==
    IF bytes = <<>> THEN 1 ELSE 2 * try_digest(Tail(bytes)) + Head(bytes)

\* The directory after a file `name` is created or replaced with `bytes`.
WriteFile(dir, name, bytes) ==
    [n \in DOMAIN dir \cup {name} |-> IF n = name THEN bytes ELSE dir[n]]

RemoveFile(dir, name) == [n \in DOMAIN dir \ {name} |-> dir[n]]

\* What fs::copy can leave at the target when it fails: the target is opened
\* (created or truncated) and the bytes are written into it in order.
Prefixes(bytes) == {SubSeq(bytes, 1, n) : n \in 0..(Len(bytes) - 1)}

\* add_file up to the return of add_file_to_library: digest, then copy.
add_file_to_library(file, delete_after_add) ==
    /\ pc = "idle"
    /\ IF file \notin DOMAIN files
       THEN /\ ret' = Err("add_file", "IOError")
            /\ UNCHANGED <<library, call, pc>>
       ELSE LET sha256 == try_digest(files[file])
            IN  \/ /\ library' = WriteFile(library, sha256, files[file])
                   /\ call' = [file |-> file,
                               delete_after_add |-> delete_after_add,
                               sha256 |-> sha256]
                   /\ pc' = "copied"
                   /\ ret' = [op |-> "add_file", res |-> "running",
                              val |-> [sha256 |-> sha256], before |-> NoSnap]
                \/ /\ \E part \in Prefixes(files[file]) :
                         library' = WriteFile(library, sha256, part)
                   /\ ret' = Err("add_file", "IOError")
                   /\ UNCHANGED <<call, pc>>
                \/ /\ ret' = Err("add_file", "IOError")
                   /\ UNCHANGED <<library, call, pc>>
    /\ UNCHANGED <<dbvars, now, version, snap, files>>

\* The rest of add_file: remove the source if asked, return the digest.
add_file_finish ==
    /\ pc = "copied"
    /\ \/ /\ files' = IF call.delete_after_add
                      THEN RemoveFile(files, call.file)
                      ELSE files
          /\ ret' = Ok("add_file", [sha256 |-> call.sha256])
       \/ /\ call.delete_after_add
          /\ ret' = Err("add_file", "IOError")
          /\ UNCHANGED files
    /\ pc' = "idle"
    /\ call' = NoCall
    /\ UNCHANGED <<dbvars, now, version, snap, library>>

\* The process stops between the copy and the removal of the source.
add_file_crash ==
    /\ pc = "copied"
    /\ pc' = "idle"
    /\ call' = NoCall
    /\ ret' = [op |-> "add_file", res |-> "crash",
               val |-> [sha256 |-> call.sha256], before |-> NoSnap]
    /\ UNCHANGED <<dbvars, now, version, snap, files, library>>

add_file ==
    \/ \E file \in Paths, delete_after_add \in BOOLEAN :
          add_file_to_library(file, delete_after_add)
    \/ add_file_finish
    \/ add_file_crash

\* ------------------------------------------------------- specifications
\* The store a process finds on disk: none yet, an empty version table, a
\* version 0 store of an earlier release, or a store already at version 1.
InitStores ==
    {[NoSnap EXCEPT !.tvExists = e] : e \in BOOLEAN}
    \cup {[NoSnap EXCEPT !.tvExists = TRUE, !.version_code = v,
                         !.schema = IF v = 0 THEN "v0" ELSE "v1"] :
            v \in 0..DATABASE_VERSION}

InitRest ==
    /\ now = 0
    /\ pc = "idle"
    /\ version = NoRow
    /\ snap = NoSnap
    /\ ret = NoRet
    /\ files = <<>>
    /\ library = <<>>
    /\ call = NoCall

InitStore(s) ==
    /\ tvExists = s.tvExists
    /\ version_code = s.version_code
    /\ schema = s.schema
    /\ meme = s.meme
    /\ tag = s.tag
    /\ meme_tag = s.meme_tag

Init == (\E s \in InitStores : InitStore(s)) /\ InitRest

Next ==
    \/ handle_version
    \/ TagIndex
    \/ search_meme_by_stmt(<<>>, 0, "Normal")

Spec == Init /\ [][Next]_vars

\* The store after handle_version ran on a fresh file.
ReadyStore == [NoSnap EXCEPT !.tvExists = TRUE,
                            !.version_code = DATABASE_VERSION,
                            !.schema = "v1"]

\* MemeRecordStore alone, on a migrated store.
EditIds == 1..MaxEditId

InitMeme == InitStore(ReadyStore) /\ InitRest

NextMeme ==
    \/ \E file_id \in Digests, summary \in NewTexts :
          insert_meme(file_id, None, summary, None, None)
    \/ \E id \in EditIds, extra_data \in OptEdit, summary \in OptEdit,
          description \in OptEdit, thumbnail \in OptEdit :
          update_meme(id, extra_data, summary, description, thumbnail)
    \/ Tick(MaxTime)

SpecMeme == InitMeme /\ [][NextMeme]_vars

\* Search over a migrated store that holds the tag artist:alice.
Terms ==
    {Term("tag", neg, "artist", "alice", <<>>) : neg \in BOOLEAN}
    \cup {Term("ns", neg, "artist", "", <<>>) : neg \in BOOLEAN}
    \cup {Term("text", neg, "", "", <<"a">>) : neg \in BOOLEAN}
    \cup {Term("bad", FALSE, "", "", <<>>)}

Exprs ==
    {<<>>} \cup {<<t>> : t \in Terms}
    \cup {<<Term("tag", FALSE, "artist", "alice", <<>>),
             Term("text", neg, "", "", <<"a">>)>> : neg \in BOOLEAN}

InitSearch ==
    /\ InitStore([ReadyStore EXCEPT
                     !.tag = {[id |-> 1, namespace |-> "artist",
                               value |-> "alice"]}])
    /\ InitRest

NextSearch ==
    \/ \E file_id \in Digests, summary \in NewTexts :
          insert_meme(file_id, None, summary, None, None)
    \/ \E t \in tag, meme_id \in EditIds : link_tag_meme(t.id, meme_id)
    \/ \E id \in EditIds, value \in BOOLEAN : update_fav_meme_by_id(id, value)
    \/ \E id \in EditIds, value \in BOOLEAN :
          update_trash_meme_by_id(id, value)
    \/ \E id \in MemeIds : query_meme_by_id(id)
    \/ \E stmt \in Exprs, page \in 0..1, mode \in SearchModes :
          search_meme_by_stmt(stmt, page, mode)

SpecSearch == InitSearch /\ [][NextSearch]_vars

\* Paging over a store of more than one page. Meme i was inserted in second
\* i, except that the meme after `burst` came in the same second as `burst`.
PageTotals == {PAGE_SIZE + 1, PAGE_SIZE + MaxExtra}
Bursts(total) == {0, total - PAGE_SIZE}
Pages == {0, 1, 2, BigPage}

InsertedAt(i, burst) == IF burst > 0 /\ i > burst THEN i - 1 ELSE i

InitPage ==
    /\ \E total \in PageTotals :
          /\ \E burst \in Bursts(total) :
                InitStore([ReadyStore EXCEPT
                    !.meme = [i \in 1..total |->
                        [content |-> "d1", extra_data |-> None,
                         summary |-> <<"a">>, desc |-> None,
                         thumbnail |-> None, fav |-> FALSE, trash |-> FALSE,
                         create_time |-> InsertedAt(i, burst),
                         update_time |-> InsertedAt(i, burst)]]])
          /\ now = total
    /\ pc = "idle"
    /\ version = NoRow
    /\ snap = NoSnap
    /\ ret = NoRet
    /\ files = <<>>
    /\ library = <<>>
    /\ call = NoCall

NextPage ==
    \/ \E page \in Pages, mode \in SearchModes :
          search_meme_by_stmt(<<>>, page, mode)
    \/ \E id \in EditIds : update_meme_edit_time(id)
    \/ \E id \in EditIds, value \in BOOLEAN : update_fav_meme_by_id(id, value)
    \/ Tick(Cardinality(DOMAIN meme) + MaxTime)

SpecPage == InitPage /\ [][NextPage]_vars

\* The content store alone: source files on disk, an empty library.
InitFile ==
    /\ InitStore(ReadyStore)
    /\ now = 0
    /\ pc = "idle"
    /\ version = NoRow
    /\ snap = NoSnap
    /\ ret = NoRet
    /\ \E present \in SUBSET Paths : files \in [present -> Contents]
    /\ library = <<>>
    /\ call = NoCall

SpecFile == InitFile /\ [][add_file]_vars

\* ------------------------------------------------------------- properties
Migrated(res) == ret.op = "handle_version" /\ ret.res = res

\* C1: handle_version on a fresh store (no version table, or no version row)
\* ends with version_code = DATABASE_VERSION and the full schema created by
\* exactly the statements of the fresh path; on a store already at
\* DATABASE_VERSION it runs no insert, create or upgrade statement and leaves
\* the store as it found it.
C1_MigrateFreshOrCurrent ==
    Migrated("ok") =>
        /\ ret.before.version_code = NoRow =>
              /\ tvExists
              /\ version_code = DATABASE_VERSION
              /\ schema = "v1"
              /\ meme = <<>> /\ tag = {} /\ meme_tag = NoEdges
              /\ ret.val.stmts = <<"create_tableversion", "insert_version",
                                   "create_database">>
        /\ ret.before.version_code = DATABASE_VERSION =>
              /\ Store = ret.before
              /\ ret.val.stmts = <<"create_tableversion">>

\* C1 witness: a migration of a fresh store without a version table returned.
C1_Witness ==
    /\ Migrated("ok")
    /\ ~ret.before.tvExists
    /\ version_code = DATABASE_VERSION

\* C2: when a statement of handle_version fails, the call returns an error
\* and the store is the one the call found.
C2_FailedMigrationRestores ==
    Migrated("err") => Store = ret.before

\* C2 witness: the create-schema script failed after the version table was
\* created and the version row inserted, and the store has no version table.
C2_Witness ==
    /\ Migrated("err")
    /\ ret.val.stmts = <<"create_tableversion", "insert_version",
                         "create_database">>
    /\ ~tvExists

NoDuplicateTags ==
    \A t1 \in tag, t2 \in tag :
        (t1.namespace = t2.namespace /\ t1.value = t2.value) => t1 = t2

\* C3: a successful query_or_insert_tag(namespace, value) returns the id of a
\* row with that pair and adds one row exactly when no row had the pair; a
\* second call right after it returns the same id and adds no row; and no two
\* rows of table tag ever share (namespace, value).
C3_GetOrCreateIdempotent ==
    /\ []NoDuplicateTags
    /\ [][\A namespace \in Namespaces, value \in Values :
            (TablesExist /\ ret'.op = "query_or_insert_tag"
                /\ query_or_insert_tag(namespace, value)) =>
                /\ ret'.res = "ok"
                /\ [id |-> ret'.val.id, namespace |-> namespace,
                    value |-> value] \in tag'
                /\ Cardinality(tag') = Cardinality(tag) +
                      (IF \E t \in tag : /\ t.namespace = namespace
                                         /\ t.value = value
                       THEN 0 ELSE 1)
                /\ (/\ ret.op = "query_or_insert_tag"
                    /\ ret.res = "ok"
                    /\ [id |-> ret.val.id, namespace |-> namespace,
                        value |-> value] \in tag)
                   => (ret'.val.id = ret.val.id /\ tag' = tag)]_vars

\* C3 witness: get-or-create returned the id of a tag that already carries an
\* edge, beside another tag.
C3_Witness ==
    /\ ret.op = "query_or_insert_tag"
    /\ ret.res = "ok"
    /\ Cardinality(tag) = 2
    /\ \E m \in MemeIds : meme_tag[<<ret.val.id, m>>] > 0

\* C4: unlink_tag_meme(tag_id, meme_id, remove_unused_tag) removes that edge
\* and no other, and deletes the tag row exactly when remove_unused_tag is set
\* and the tag has no edge left; no step of any other kind deletes a tag row.
C4_UnlinkReclaimsOnlyOnRequest ==
    /\ [][\A tag_id \in TagIds, meme_id \in MemeIds, remove \in BOOLEAN :
            (TablesExist /\ ret'.op = "unlink_tag_meme"
                /\ unlink_tag_meme(tag_id, meme_id, remove)) =>
                /\ meme_tag' = [meme_tag EXCEPT ![<<tag_id, meme_id>>] = 0]
                /\ tag' = IF remove /\ \A m \in MemeIds :
                                          meme_tag'[<<tag_id, m>>] = 0
                          THEN {t \in tag : t.id # tag_id}
                          ELSE tag]_vars
    /\ [][\A t \in tag :
            t \notin tag' =>
                /\ ret'.op = "unlink_tag_meme"
                /\ \A m \in MemeIds : meme_tag'[<<t.id, m>>] = 0]_vars

\* C4 witness: after an unlink a tag row is left without any edge while
\* another tag still has one.
C4_Witness ==
    /\ ret.op = "unlink_tag_meme"
    /\ ret.res = "ok"
    /\ \E t \in tag : \A m \in MemeIds : meme_tag[<<t.id, m>>] = 0
    /\ \E t \in tag : \E m \in MemeIds : meme_tag[<<t.id, m>>] > 0

\* C5: link_tag_meme(tag_id, meme_id) succeeds and leaves exactly one edge for
\* the pair, every other edge and every tag and meme as they were; on a pair
\* already linked it changes nothing; so no pair ever has two edges.
C5_LinkIdempotent ==
    /\ [](\A p \in DOMAIN meme_tag : meme_tag[p] <= 1)
    /\ [][\A tag_id \in TagIds, meme_id \in MemeIds :
            (TablesExist /\ ret'.op = "link_tag_meme"
                /\ link_tag_meme(tag_id, meme_id)) =>
                /\ ret'.res = "ok"
                /\ meme_tag' = [meme_tag EXCEPT ![<<tag_id, meme_id>>] = 1]
                /\ meme_tag[<<tag_id, meme_id>>] = 1 => meme_tag' = meme_tag
                /\ tag' = tag /\ meme' = meme]_vars

\* C5 witness: a link returned success and its store holds two single edges.
C5_Witness ==
    /\ ret.op = "link_tag_meme"
    /\ ret.res = "ok"
    /\ Cardinality({p \in DOMAIN meme_tag : meme_tag[p] = 1}) = 2

\* C10: no operation panics: each returns a value or an error.
C10_NoPanic == ret.res # "panic"

\* The value a column holds after a sparse update with argument `arg`.
Sparse(old, arg) == IF arg # None THEN arg[1] ELSE old

\* C6: update_meme overwrites, in the row of that id, exactly the columns
\* whose argument is present, and leaves every other column of that row and
\* every other row as they were.
C6_SparseUpdate ==
    [][\A id \in EditIds, extra_data \in OptEdit, summary \in OptEdit,
         description \in OptEdit, thumbnail \in OptEdit :
          (ret'.op = "update_meme"
              /\ update_meme(id, extra_data, summary, description,
                             thumbnail)) =>
              /\ ret'.res = "ok"
              /\ DOMAIN meme' = DOMAIN meme
              /\ \A i \in DOMAIN meme :
                    meme'[i] =
                        IF i # id THEN meme[i]
                        ELSE [content |-> meme[i].content,
                              extra_data |-> Sparse(meme[i].extra_data,
                                                    extra_data),
                              summary |-> Sparse(meme[i].summary, summary),
                              desc |-> Sparse(meme[i].desc, description),
                              thumbnail |-> Sparse(meme[i].thumbnail,
                                                   thumbnail),
                              fav |-> meme[i].fav,
                              trash |-> meme[i].trash,
                              create_time |-> meme[i].create_time,
                              update_time |-> meme[i].update_time]]_vars

\* C6 witness: after an update a meme has a new summary, its
\* description still NULL and its update_time in the past, beside another meme.
C6_Witness ==
    /\ ret.op = "update_meme"
    /\ Cardinality(DOMAIN meme) = 2
    /\ \E id \in DOMAIN meme :
          /\ meme[id].summary \in EditTexts
          /\ meme[id].desc = None
          /\ meme[id].update_time < now

\* The mode's clause, read off the flags of a returned Meme.
ModeAllows(mode, m) ==
    CASE mode = "Normal" -> ~m.trash
      [] mode = "OnlyFav" -> m.fav /\ ~m.trash
      [] mode = "OnlyTrash" -> m.trash

Searched == ret.op = "search_meme_by_stmt" /\ ret.res = "ok"

RowIds(rows) == {rows[k].id : k \in DOMAIN rows}

\* C7: every row a search returns satisfies the expression's predicate and
\* the mode's clause, and the first page of a result that fits in it holds
\* every meme that satisfies both.
C7_ModeClauseAnded ==
    Searched =>
        /\ \A k \in DOMAIN ret.val.rows :
              /\ ModeAllows(ret.val.mode, ret.val.rows[k])
              /\ Predicate(ret.val.stmt, ret.val.rows[k].id)
              /\ ret.val.rows[k] = MemeOf(ret.val.rows[k].id)
        /\ (ret.val.page = 0 /\ Cardinality(DOMAIN meme) <= PAGE_SIZE) =>
              RowIds(ret.val.rows) =
                  {id \in DOMAIN meme :
                      /\ Predicate(ret.val.stmt, id)
                      /\ ModeAllows(ret.val.mode, meme[id])}

\* C7 witness: a trashed favourite tagged artist:alice is returned under
\* OnlyTrash for the expression artist:alice.
C7_Witness ==
    /\ Searched
    /\ ret.val.mode = "OnlyTrash"
    /\ ret.val.stmt = <<Term("tag", FALSE, "artist", "alice", <<>>)>>
    /\ \E k \in DOMAIN ret.val.rows : ret.val.rows[k].fav

\* C8: the pages of one search over an unchanged store are windows over one
\* ordering: asking the same page again returns the same rows, two different
\* pages share no meme, and a page that starts beyond the end is empty.
C8_PagesAreWindowsOfOneOrdering ==
    [][(/\ Searched
        /\ ret'.op = "search_meme_by_stmt"
        /\ ret'.res = "ok"
        /\ ret'.val.mode = ret.val.mode
        /\ ret'.val.stmt = ret.val.stmt) =>
            /\ ret'.val.page = ret.val.page => ret'.val.rows = ret.val.rows
            /\ ret'.val.page # ret.val.page =>
                  RowIds(ret'.val.rows) \cap RowIds(ret.val.rows) = {}
            /\ ret'.val.page > Cardinality(DOMAIN meme) \div PAGE_SIZE =>
                  ret'.val.rows = <<>>]_vars

\* C9: every file of the library holds the bytes whose digest is its name.
C9_LibraryFilesMatchTheirName ==
    \A name \in DOMAIN library : try_digest(library[name]) = name

====
